---- MODULE Spec2Model ----
(***************************************************************************)
(* Model of ompl::app::FCLMethodWrapper (FCLMethodWrapper.h): construction *)
(* of the environment and robot-part models from a geometry specification, *)
(* and the discrete validity, continuous validity and clearance queries    *)
(* issued on it by concurrent threads.                                     *)
(*                                                                         *)
(* Geometry is one-dimensional: a point is an integer, a pose is a         *)
(* translation, a triangle covers the interval spanned by its three        *)
(* vertices.  Time of a motion runs over 0..TimeDen, TimeDen standing for  *)
(* the parameter value 1.0.                                                *)
(***************************************************************************)
EXTENDS Integers, Sequences, FiniteSets, TLC

\* ------------------------------------------------------------------ bounds
MaxPose == 1            \* a part's translations are 0, 2, .., 2 * MaxPose
TimeDen == 2            \* collision times are k/TimeDen, k \in 0..TimeDen
NumThreads == 2         \* threads issuing queries on the one engine

Threads == 1..NumThreads
Poses == {2 * p : p \in 0..MaxPose}
\* std::numeric_limits<double>::infinity(): larger than every finite distance
Infinity == 1000000

Min(a, b) == IF a < b THEN a ELSE b
Max(a, b) == IF a > b THEN a ELSE b

VARIABLES
    phase,          \* "unconfigured" | "configured" | "aborted"
    ndebug,         \* TRUE iff the build defines NDEBUG (assert compiled out)
    geom,           \* the GeometrySpecification handed to the constructor
    selfCollision,  \* selfCollision_
    environment,    \* environment_ : [pts, tris, pose]
    robotParts,     \* robotParts_  : sequence of [pts, tris, pose]
    mutex,          \* mutex_ : 0 when free, else the thread holding it
    pc,             \* per thread: position in the query it runs
    st1, st2,       \* per thread: the argument state(s) of the query
    idxI, idxJ,     \* per thread: loop indices i and j (0-based, as in the code)
    valid,          \* per thread: local valid
    collisionTime,  \* per thread: the reference parameter collisionTime
    dist,           \* per thread: local dist
    motionI, motionJ \* per thread: the InterpMotion locals of the continuous query

engineVars == <<phase, ndebug, geom, selfCollision, environment, robotParts>>
threadVars == <<pc, st1, st2, idxI, idxJ, valid, collisionTime, dist, motionI, motionJ>>
vars == <<phase, ndebug, geom, selfCollision, environment, robotParts, mutex,
          pc, st1, st2, idxI, idxJ, valid, collisionTime, dist, motionI, motionJ>>

\* ------------------------------------------------------------ construction
\* An aiScene pointer: null, or a scene whose extracted point list is pts.
NullScene == [null |-> TRUE, pts |-> <<>>]
Scene(p) == [null |-> FALSE, pts |-> p]

\* scene::extractTriangles: the flat point list of the scene.
extractTriangles(scene) == scene.pts

\* t[j] -= center[i] for every point, when a center is given for scene i.
ShiftPoints(t, center, i) ==
    IF Len(center) > i THEN [j \in 1..Len(t) |-> t[j] - center[i + 1]] ELSE t

\* for (j = 0; j < t.size(); j += 3) triangles.push_back(Triangle(j, j+1, j+2))
TrianglesOf(t) ==
    [m \in 1..((Len(t) + 2) \div 3) |-> <<3 * (m - 1), 3 * (m - 1) + 1, 3 * (m - 1) + 2>>]

\* assert (t.size () % 3 == 0): checked only when NDEBUG is not defined.
AssertFails(t, nd) == ~nd /\ Len(t) % 3 # 0

\* getFCLModelFromScene(scenes, center): the loop over the scenes from index i
\* (0-based) with the points and triangles accumulated so far.
RECURSIVE SceneLoop(_, _, _, _, _, _)
SceneLoop(scenes, center, i, pts, triangles, nd) ==
    IF i >= Len(scenes) THEN [ok |-> TRUE, pts |-> pts, tris |-> triangles]
    ELSE IF scenes[i + 1].null THEN SceneLoop(scenes, center, i + 1, pts, triangles, nd)
    ELSE LET t == ShiftPoints(extractTriangles(scenes[i + 1]), center, i)
         IN  IF AssertFails(t, nd)
             THEN [ok |-> FALSE, pts |-> pts, tris |-> triangles]
             ELSE SceneLoop(scenes, center, i + 1, pts \o t, triangles \o TrianglesOf(t), nd)

getFCLModelFromScene(scenes, center, nd) == SceneLoop(scenes, center, 0, <<>>, <<>>, nd)

\* The single-scene overload: vectors of length one.
getFCLModelFromScene1(scene, center, nd) == getFCLModelFromScene(<<scene>>, <<center>>, nd)

\* aiVector3D shift(0,0,0); if (geom.robotShift.size () > rbt) shift = geom.robotShift[rbt];
RobotShiftOf(g, rbt) == IF Len(g.robotShift) > rbt THEN g.robotShift[rbt + 1] ELSE 0

\* The model of robot piece rbt (0-based) as configure builds it; the
\* transform of a fresh BVHModel is the identity.
RobotModelOf(g, rbt, nd) ==
    LET tm == getFCLModelFromScene1(g.robot[rbt + 1], RobotShiftOf(g, rbt), nd)
    IN  [ok |-> tm.ok, pts |-> tm.pts, tris |-> tm.tris, pose |-> 0]

\* configure(geom): environment first, then the robot pieces in index order.
EnvModelOf(g, nd) == getFCLModelFromScene(g.obstacles, g.obstaclesShift, nd)

ConfigureOk(g, nd) ==
    /\ EnvModelOf(g, nd).ok
    /\ \A rbt \in 0..(Len(g.robot) - 1) : RobotModelOf(g, rbt, nd).ok

ConfiguredEnvironment(g, nd) ==
    LET tm == EnvModelOf(g, nd) IN [pts |-> tm.pts, tris |-> tm.tris, pose |-> 0]

\* (a variant storing the pieces in reverse index order)
ConfiguredRobotPartsReversed(g, nd) ==
    [k \in 1..Len(g.robot) |->
        LET m == RobotModelOf(g, Len(g.robot) - k, nd)
        IN  [pts |-> m.pts, tris |-> m.tris, pose |-> m.pose]]

ConfiguredRobotParts(g, nd) ==
    [k \in 1..Len(g.robot) |->
        LET m == RobotModelOf(g, k - 1, nd)
        IN  [pts |-> m.pts, tris |-> m.tris, pose |-> m.pose]]

\* ------------------------------------------------------- geometric tests
\* The collision library's tests (fcl::collide, fcl::distance and
\* fcl::conservativeAdvancement are library routines, called but not defined
\* by the wrapper), by what they report on the one-dimensional geometry: a
\* model is a set of triangles, each covering the interval of its three
\* vertices.  collide and distance place a model at its current transform
\* (pose); conservativeAdvancement moves it along the motion it is given.
Vertex(m, v) == m.pts[v + 1]
TriLo(m, tr) == Min(Vertex(m, tr[1]), Min(Vertex(m, tr[2]), Vertex(m, tr[3])))
TriHi(m, tr) == Max(Vertex(m, tr[1]), Max(Vertex(m, tr[2]), Vertex(m, tr[3])))
TriIdx(m) == 1..Len(m.tris)

\* num_tris of a model
\* (a variant counting one triangle too many)
NumTrisPlusOne(m) == Len(m.tris) + 1
NumTris(m) == Len(m.tris)

\* Two triangles overlap when their translated intervals meet.
Overlap(lo1, hi1, lo2, hi2) == lo1 <= hi2 /\ lo2 <= hi1
Gap(lo1, hi1, lo2, hi2) == Max(0, Max(lo2 - hi1, lo1 - hi2))

\* fcl::collide(o1, o2, 1, false, false, contacts): number of contacts (at
\* most one is asked for) of the models at their current transforms.
collide(o1, o2) ==
    IF \E a \in TriIdx(o1), b \in TriIdx(o2) :
          Overlap(TriLo(o1, o1.tris[a]) + o1.pose, TriHi(o1, o1.tris[a]) + o1.pose,
                  TriLo(o2, o2.tris[b]) + o2.pose, TriHi(o2, o2.tris[b]) + o2.pose)
    THEN 1 ELSE 0

\* fcl::distance on a MeshDistanceTraversalNodeRSS initialized with (o1, o2):
\* min_distance, the least gap between a triangle of o1 and one of o2.
GapSet(o1, o2) ==
    {Gap(TriLo(o1, o1.tris[a]) + o1.pose, TriHi(o1, o1.tris[a]) + o1.pose,
         TriLo(o2, o2.tris[b]) + o2.pose, TriHi(o2, o2.tris[b]) + o2.pose) :
        a \in TriIdx(o1), b \in TriIdx(o2)}
min_distance(o1, o2) == CHOOSE d \in GapSet(o1, o2) : \A e \in GapSet(o1, o2) : d <= e

\* fcl::InterpMotion(rot1, trans1, rot2, trans2): the pair of end poses; the
\* default-constructed motion (the environment's) stays at the identity.
StillMotion == <<0, 0>>
\* Position along motion mo at step k of TimeDen, scaled by TimeDen.
MotionAt(mo, k) == mo[1] * (TimeDen - k) + mo[2] * k

\* Whether triangles a of o1 and b of o2 are in contact at some time of
\* [k/TimeDen, (k+1)/TimeDen) while o1 follows mo1 and o2 follows mo2.
ContactIn(o1, a, mo1, o2, b, mo2, k) ==
    LET lo1(x) == TimeDen * TriLo(o1, o1.tris[a]) + MotionAt(mo1, x)
        hi1(x) == TimeDen * TriHi(o1, o1.tris[a]) + MotionAt(mo1, x)
        lo2(x) == TimeDen * TriLo(o2, o2.tris[b]) + MotionAt(mo2, x)
        hi2(x) == TimeDen * TriHi(o2, o2.tris[b]) + MotionAt(mo2, x)
    IN  \/ Overlap(lo1(k), hi1(k), lo2(k), hi2(k))
        \/ hi1(k) < lo2(k) /\ hi1(k + 1) > lo2(k + 1)
        \/ lo1(k) > hi2(k) /\ lo1(k + 1) < hi2(k + 1)

HitSteps(o1, mo1, o2, mo2) ==
    {k \in 0..(TimeDen - 1) :
        \E a \in TriIdx(o1), b \in TriIdx(o2) : ContactIn(o1, a, mo1, o2, b, mo2, k)}

\* fcl::conservativeAdvancement(o1, motion1, o2, motion2, 1, false, false,
\* contacts, toc): the number of contacts, and the value written to toc: the
\* time of first contact when there is one in [0,1), and 1 otherwise.
conservativeAdvancement(o1, mo1, o2, mo2) ==
    LET hits == HitSteps(o1, mo1, o2, mo2)
    IN  IF hits = {} THEN [n |-> 0, toc |-> TimeDen]
        ELSE [n |-> 1, toc |-> CHOOSE k \in hits : \A h \in hits : k <= h]

\* ---------------------------------------------------------------- queries
NumParts == Len(robotParts)
\* The planner states: one pose per robot part.
States == [1..NumParts -> Poses]

\* poseFromStateCallback_(translation, quaternion, extractState_(state, i))
PoseFromState(s, i) == s[i + 1]

\* robotParts_[i].setTransform(quaternion, translation)
setTransform(parts, i, p) == [parts EXCEPT ![i + 1].pose = p]

\* Mutant: a lock that never waits.
CanLockAlways(m) == TRUE

\* boost::mutex::scoped_lock slock(mutex_): blocks until the mutex is free.
CanLock(m) == m = 0

\* Mutant: the loops run on after a collision was found.
LoopGuardNoValid(i, v) == i < NumParts

\* Loop conditions "i < robotParts_.size () && valid"
\* (a variant leaving the loop one piece early)
LoopGuardSkipsLast(i, v) == i + 1 < NumParts /\ v
LoopGuard(i, v) == i < NumParts /\ v

\* Mutant: self-collision is checked whatever the flag says.
SelfCheckAlways(v) == v

\* if (selfCollision_ && valid)
SelfCheckGuard(v) == selfCollision /\ v

\* Mutant: the pair loops start at j = i, testing a piece against itself.
FirstJSame(i) == i

\* the first inner index of the pair loops: j = i + 1
FirstJ(i) == i + 1

\* Mutant: collisionTime is not initialized.
KeepCallerTime(c) == c

\* collisionTime = 1.0 at the start of the continuous query; c is the value
\* the caller's variable held at the call.
InitialCollisionTime(c) == TimeDen

\* Mutant: the motion starts from the scratch pose of the piece.
InterpMotionFromScratch(s1, s2, i) == <<robotParts[i + 1].pose, PoseFromState(s2, i)>>

\* InterpMotion of part i from its pose at s1 to its pose at s2
InterpMotion(s1, s2, i) == <<PoseFromState(s1, i), PoseFromState(s2, i)>>

\* Mutant: the least distance is never recorded.
KeepDist(d, cur) == cur

\* if (distanceNode.min_distance < dist) dist = distanceNode.min_distance;
\* (a variant keeping the distance of the last piece measured)
LastDist(d, cur) == d
SmallerDist(d, cur) == IF d < cur THEN d ELSE cur

\* The scoped lock's destructor, at the end of the lock's scope: the thread
\* that holds the mutex releases it.
\* (a variant that never releases)
UnlockNever(m, t) == m
Unlock(m, t) == IF m = t THEN 0 ELSE m

IdleLocals(t) ==
    /\ st1' = [st1 EXCEPT ![t] = <<>>]
    /\ st2' = [st2 EXCEPT ![t] = <<>>]
    /\ idxI' = [idxI EXCEPT ![t] = 0]
    /\ idxJ' = [idxJ EXCEPT ![t] = 0]
    /\ valid' = [valid EXCEPT ![t] = TRUE]
    /\ collisionTime' = [collisionTime EXCEPT ![t] = TimeDen]
    /\ dist' = [dist EXCEPT ![t] = Infinity]
    /\ motionI' = [motionI EXCEPT ![t] = StillMotion]
    /\ motionJ' = [motionJ EXCEPT ![t] = StillMotion]

\* ---- construction
Configure ==
    /\ phase = "unconfigured"
    /\ ConfigureOk(geom, ndebug)
    /\ environment' = ConfiguredEnvironment(geom, ndebug)
    /\ robotParts' = ConfiguredRobotParts(geom, ndebug)
    /\ phase' = "configured"
    /\ UNCHANGED <<ndebug, geom, selfCollision, mutex, threadVars>>

\* A failed assert aborts the process: no engine is constructed.
ConfigureAbort ==
    /\ phase = "unconfigured"
    /\ ~ConfigureOk(geom, ndebug)
    /\ phase' = "aborted"
    /\ UNCHANGED <<ndebug, geom, selfCollision, environment, robotParts, mutex, threadVars>>

\* ---- discrete isValid(state)
CallIsValid(t) ==
    /\ phase = "configured"
    /\ pc[t] = "idle"
    /\ \E s \in States :
          /\ st1' = [st1 EXCEPT ![t] = s]
          /\ st2' = [st2 EXCEPT ![t] = s]
    /\ valid' = [valid EXCEPT ![t] = TRUE]
    /\ pc' = [pc EXCEPT ![t] = "d_lock"]
    /\ UNCHANGED <<engineVars, mutex, idxI, idxJ, collisionTime, dist, motionI, motionJ>>

DLock(t) ==
    /\ pc[t] = "d_lock"
    /\ CanLock(mutex)
    /\ mutex' = t
    /\ idxI' = [idxI EXCEPT ![t] = 0]
    /\ pc' = [pc EXCEPT ![t] = IF NumTris(environment) > 0 THEN "d_transform" ELSE "d_selfif"]
    /\ UNCHANGED <<engineVars, st1, st2, idxJ, valid, collisionTime, dist, motionI, motionJ>>

\* transformRobot(state), one setTransform per step
DTransform(t) ==
    /\ pc[t] = "d_transform"
    /\ IF idxI[t] < NumParts
       THEN /\ robotParts' = setTransform(robotParts, idxI[t], PoseFromState(st1[t], idxI[t]))
            /\ idxI' = [idxI EXCEPT ![t] = idxI[t] + 1]
            /\ pc' = pc
       ELSE /\ robotParts' = robotParts
            /\ idxI' = [idxI EXCEPT ![t] = 0]
            /\ pc' = [pc EXCEPT ![t] = "d_env"]
    /\ UNCHANGED <<phase, ndebug, geom, selfCollision, environment, mutex,
                   st1, st2, idxJ, valid, collisionTime, dist, motionI, motionJ>>

DEnv(t) ==
    /\ pc[t] = "d_env"
    /\ IF LoopGuard(idxI[t], valid[t])
       THEN /\ valid' = [valid EXCEPT ![t] =
                           valid[t] /\ (collide(robotParts[idxI[t] + 1], environment) = 0)]
            /\ idxI' = [idxI EXCEPT ![t] = idxI[t] + 1]
            /\ pc' = pc
       ELSE /\ valid' = valid
            /\ idxI' = [idxI EXCEPT ![t] = 0]
            /\ pc' = [pc EXCEPT ![t] = "d_selfif"]
    /\ UNCHANGED <<engineVars, mutex, st1, st2, idxJ, collisionTime, dist, motionI, motionJ>>

DSelfIf(t) ==
    /\ pc[t] = "d_selfif"
    /\ IF SelfCheckGuard(valid[t])
       THEN /\ idxI' = [idxI EXCEPT ![t] = 0]
            /\ idxJ' = [idxJ EXCEPT ![t] = FirstJ(0)]
            /\ pc' = [pc EXCEPT ![t] = "d_self"]
       ELSE /\ idxI' = [idxI EXCEPT ![t] = 0]
            /\ idxJ' = idxJ
            /\ pc' = [pc EXCEPT ![t] = "d_ret"]
    /\ UNCHANGED <<engineVars, mutex, st1, st2, valid, collisionTime, dist, motionI, motionJ>>

DSelf(t) ==
    /\ pc[t] = "d_self"
    /\ IF LoopGuard(idxI[t], valid[t])
       THEN IF LoopGuard(idxJ[t], valid[t])
            THEN /\ valid' = [valid EXCEPT ![t] =
                                valid[t] /\ (collide(robotParts[idxI[t] + 1],
                                                     robotParts[idxJ[t] + 1]) = 0)]
                 /\ idxJ' = [idxJ EXCEPT ![t] = idxJ[t] + 1]
                 /\ idxI' = idxI
                 /\ pc' = pc
            ELSE /\ valid' = valid
                 /\ idxI' = [idxI EXCEPT ![t] = idxI[t] + 1]
                 /\ idxJ' = [idxJ EXCEPT ![t] = FirstJ(idxI[t] + 1)]
                 /\ pc' = pc
       ELSE /\ valid' = valid
            /\ idxI' = [idxI EXCEPT ![t] = 0]
            /\ idxJ' = [idxJ EXCEPT ![t] = 0]
            /\ pc' = [pc EXCEPT ![t] = "d_ret"]
    /\ UNCHANGED <<engineVars, mutex, st1, st2, collisionTime, dist, motionI, motionJ>>

\* return valid: the scoped lock is released
DReturn(t) ==
    /\ pc[t] = "d_ret"
    /\ mutex' = Unlock(mutex, t)
    /\ pc' = [pc EXCEPT ![t] = "d_done"]
    /\ UNCHANGED <<engineVars, st1, st2, idxI, idxJ, valid, collisionTime, dist, motionI, motionJ>>

\* ---- continuous isValid(s1, s2, collisionTime)
CallIsValidMotion(t) ==
    /\ phase = "configured"
    /\ pc[t] = "idle"
    /\ \E s1 \in States, s2 \in States :
          /\ st1' = [st1 EXCEPT ![t] = s1]
          /\ st2' = [st2 EXCEPT ![t] = s2]
    /\ valid' = [valid EXCEPT ![t] = TRUE]
    /\ \E c \in 0..TimeDen :
          collisionTime' = [collisionTime EXCEPT ![t] = InitialCollisionTime(c)]
    /\ idxI' = [idxI EXCEPT ![t] = 0]
    /\ pc' = [pc EXCEPT ![t] = IF NumTris(environment) > 0 THEN "c_env" ELSE "c_selfif"]
    /\ UNCHANGED <<engineVars, mutex, idxJ, dist, motionI, motionJ>>

CEnv(t) ==
    /\ pc[t] = "c_env"
    /\ IF LoopGuard(idxI[t], valid[t])
       THEN LET motion1 == InterpMotion(st1[t], st2[t], idxI[t])
                r == conservativeAdvancement(robotParts[idxI[t] + 1], motion1,
                                             environment, StillMotion)
            IN  /\ motionI' = [motionI EXCEPT ![t] = motion1]
                /\ valid' = [valid EXCEPT ![t] = valid[t] /\ (r.n = 0)]
                /\ collisionTime' = [collisionTime EXCEPT ![t] = r.toc]
                /\ idxI' = [idxI EXCEPT ![t] = idxI[t] + 1]
                /\ pc' = pc
       ELSE /\ motionI' = motionI
            /\ valid' = valid
            /\ collisionTime' = collisionTime
            /\ idxI' = [idxI EXCEPT ![t] = 0]
            /\ pc' = [pc EXCEPT ![t] = "c_selfif"]
    /\ UNCHANGED <<engineVars, mutex, st1, st2, idxJ, dist, motionJ>>

CSelfIf(t) ==
    /\ pc[t] = "c_selfif"
    /\ idxI' = [idxI EXCEPT ![t] = 0]
    /\ pc' = [pc EXCEPT ![t] = IF SelfCheckGuard(valid[t]) THEN "c_outer" ELSE "c_ret"]
    /\ UNCHANGED <<engineVars, mutex, st1, st2, idxJ, valid, collisionTime, dist, motionI, motionJ>>

\* The outer pair loop: motion_i is built, then the inner loop starts.
CSelfOuter(t) ==
    /\ pc[t] = "c_outer"
    /\ IF LoopGuard(idxI[t], valid[t])
       THEN /\ motionI' = [motionI EXCEPT ![t] = InterpMotion(st1[t], st2[t], idxI[t])]
            /\ idxJ' = [idxJ EXCEPT ![t] = FirstJ(idxI[t])]
            /\ idxI' = idxI
            /\ pc' = [pc EXCEPT ![t] = "c_inner"]
       ELSE /\ motionI' = motionI
            /\ idxJ' = [idxJ EXCEPT ![t] = 0]
            /\ idxI' = [idxI EXCEPT ![t] = 0]
            /\ pc' = [pc EXCEPT ![t] = "c_ret"]
    /\ UNCHANGED <<engineVars, mutex, st1, st2, valid, collisionTime, dist, motionJ>>

CSelfInner(t) ==
    /\ pc[t] = "c_inner"
    /\ IF LoopGuard(idxJ[t], valid[t])
       THEN LET motion_j == InterpMotion(st1[t], st2[t], idxJ[t])
                r == conservativeAdvancement(robotParts[idxI[t] + 1], motionI[t],
                                             robotParts[idxJ[t] + 1], motion_j)
            IN  /\ motionJ' = [motionJ EXCEPT ![t] = motion_j]
                /\ valid' = [valid EXCEPT ![t] = valid[t] /\ (r.n = 0)]
                /\ collisionTime' = [collisionTime EXCEPT ![t] = r.toc]
                /\ idxJ' = [idxJ EXCEPT ![t] = idxJ[t] + 1]
                /\ idxI' = idxI
                /\ pc' = pc
       ELSE /\ motionJ' = motionJ
            /\ valid' = valid
            /\ collisionTime' = collisionTime
            /\ idxJ' = [idxJ EXCEPT ![t] = 0]
            /\ idxI' = [idxI EXCEPT ![t] = idxI[t] + 1]
            /\ pc' = [pc EXCEPT ![t] = "c_outer"]
    /\ UNCHANGED <<engineVars, mutex, st1, st2, dist, motionI>>

CReturn(t) ==
    /\ pc[t] = "c_ret"
    /\ pc' = [pc EXCEPT ![t] = "c_done"]
    /\ UNCHANGED <<engineVars, mutex, st1, st2, idxI, idxJ, valid, collisionTime, dist,
                   motionI, motionJ>>

\* ---- clearance(state)
CallClearance(t) ==
    /\ phase = "configured"
    /\ pc[t] = "idle"
    /\ \E s \in States :
          /\ st1' = [st1 EXCEPT ![t] = s]
          /\ st2' = [st2 EXCEPT ![t] = s]
    /\ dist' = [dist EXCEPT ![t] = Infinity]
    /\ pc' = [pc EXCEPT ![t] = IF NumTris(environment) > 0 THEN "k_lock" ELSE "k_ret"]
    /\ UNCHANGED <<engineVars, mutex, idxI, idxJ, valid, collisionTime, motionI, motionJ>>

KLock(t) ==
    /\ pc[t] = "k_lock"
    /\ CanLock(mutex)
    /\ mutex' = t
    /\ idxI' = [idxI EXCEPT ![t] = 0]
    /\ pc' = [pc EXCEPT ![t] = "k_transform"]
    /\ UNCHANGED <<engineVars, st1, st2, idxJ, valid, collisionTime, dist, motionI, motionJ>>

KTransform(t) ==
    /\ pc[t] = "k_transform"
    /\ IF idxI[t] < NumParts
       THEN /\ robotParts' = setTransform(robotParts, idxI[t], PoseFromState(st1[t], idxI[t]))
            /\ idxI' = [idxI EXCEPT ![t] = idxI[t] + 1]
            /\ pc' = pc
       ELSE /\ robotParts' = robotParts
            /\ idxI' = [idxI EXCEPT ![t] = 0]
            /\ pc' = [pc EXCEPT ![t] = "k_dist"]
    /\ UNCHANGED <<phase, ndebug, geom, selfCollision, environment, mutex,
                   st1, st2, idxJ, valid, collisionTime, dist, motionI, motionJ>>

\* The distance loop; leaving it ends the scope of the lock.
KDist(t) ==
    /\ pc[t] = "k_dist"
    /\ IF idxI[t] < NumParts
       THEN LET d == min_distance(environment, robotParts[idxI[t] + 1])
            IN  /\ dist' = [dist EXCEPT ![t] = SmallerDist(d, dist[t])]
                /\ idxI' = [idxI EXCEPT ![t] = idxI[t] + 1]
                /\ mutex' = mutex
                /\ pc' = pc
       ELSE /\ dist' = dist
            /\ idxI' = [idxI EXCEPT ![t] = 0]
            /\ mutex' = Unlock(mutex, t)
            /\ pc' = [pc EXCEPT ![t] = "k_ret"]
    /\ UNCHANGED <<engineVars, st1, st2, idxJ, valid, collisionTime, motionI, motionJ>>

KReturn(t) ==
    /\ pc[t] = "k_ret"
    /\ pc' = [pc EXCEPT ![t] = "k_done"]
    /\ UNCHANGED <<engineVars, mutex, st1, st2, idxI, idxJ, valid, collisionTime, dist,
                   motionI, motionJ>>

\* ---- the caller takes the result; the thread may issue another query
Finish(t) ==
    /\ pc[t] \in {"d_done", "c_done", "k_done"}
    /\ pc' = [pc EXCEPT ![t] = "idle"]
    /\ IdleLocals(t)
    /\ UNCHANGED <<engineVars, mutex>>

\* ------------------------------------------------------------ geometries
\* One robot piece is a single triangle at the origin; the obstacle triangle
\* covers [1,2] once shifted by its center; a second obstacle lies far off.
PartMesh == <<0, 0, 0>>
ObstacleMesh == <<2, 2, 3>>
FarMesh == <<9, 9, 9>>

\* Well-formed geometry specifications (every mesh a whole number of
\* triangles, as the mesh ingestion emits them).
ObstacleChoices ==
    {<<>>, <<Scene(ObstacleMesh)>>, <<Scene(ObstacleMesh), Scene(FarMesh)>>}
\* Robots of zero, one and two pieces, each piece one triangle (what the
\* library does with a piece of no triangle is not modelled); the two pieces
\* coincide at equal poses,
\* or, with the second piece shifted by 2, when the second is 2 ahead.
RobotChoices ==
    {[robot |-> <<>>, robotShift |-> <<>>],
     [robot |-> <<Scene(PartMesh)>>, robotShift |-> <<>>],
     [robot |-> <<Scene(PartMesh), Scene(PartMesh)>>, robotShift |-> <<>>],
     [robot |-> <<Scene(PartMesh), Scene(PartMesh)>>, robotShift |-> <<0, 2>>]}
Geoms ==
    {[obstacles |-> o, obstaclesShift |-> <<1>>, robot |-> r.robot,
      robotShift |-> r.robotShift] : o \in ObstacleChoices, r \in RobotChoices}

InitThreads ==
    /\ mutex = 0
    /\ pc = [t \in Threads |-> "idle"]
    /\ st1 = [t \in Threads |-> <<>>]
    /\ st2 = [t \in Threads |-> <<>>]
    /\ idxI = [t \in Threads |-> 0]
    /\ idxJ = [t \in Threads |-> 0]
    /\ valid = [t \in Threads |-> TRUE]
    /\ collisionTime = [t \in Threads |-> TimeDen]
    /\ dist = [t \in Threads |-> Infinity]
    /\ motionI = [t \in Threads |-> StillMotion]
    /\ motionJ = [t \in Threads |-> StillMotion]

Init ==
    /\ phase = "unconfigured"
    /\ ndebug = FALSE
    /\ geom \in Geoms
    /\ selfCollision \in BOOLEAN
    /\ environment = [pts |-> <<>>, tris |-> <<>>, pose |-> 0]
    /\ robotParts = <<>>
    /\ InitThreads

\* The steps of thread t
ThreadStep(t) ==
    \/ CallIsValid(t) \/ DLock(t) \/ DTransform(t) \/ DEnv(t)
    \/ DSelfIf(t) \/ DSelf(t) \/ DReturn(t)
    \/ CallIsValidMotion(t) \/ CEnv(t) \/ CSelfIf(t)
    \/ CSelfOuter(t) \/ CSelfInner(t) \/ CReturn(t)
    \/ CallClearance(t) \/ KLock(t) \/ KTransform(t) \/ KDist(t) \/ KReturn(t)
    \/ Finish(t)

\* Queries issued concurrently by all threads
Next == Configure \/ \E t \in Threads : ThreadStep(t)
Spec == Init /\ [][Next]_vars

\* Queries issued concurrently under a fair scheduler: a thread inside a
\* query keeps running (the query methods have no suspension point), and a
\* thread waiting for the mutex gets it if it is released again and again.
\* Callers are not obliged to issue queries or to take their results.
Runs(t) ==
    \/ DTransform(t) \/ DEnv(t) \/ DSelfIf(t) \/ DSelf(t) \/ DReturn(t)
    \/ CEnv(t) \/ CSelfIf(t) \/ CSelfOuter(t) \/ CSelfInner(t) \/ CReturn(t)
    \/ KTransform(t) \/ KDist(t) \/ KReturn(t)
Acquires(t) == DLock(t) \/ KLock(t)
Fairness == \A t \in Threads : WF_vars(Runs(t)) /\ SF_vars(Acquires(t))
\* The engines whose queries take every path: a robot of two pieces, with
\* no obstacle or with one, self-collision checking enabled or not.
GeomsFair ==
    {g \in Geoms : Len(g.robot) = 2 /\ g.robotShift = <<>> /\ Len(g.obstacles) <= 1}
InitFair == Init /\ geom \in GeomsFair
SpecFair == InitFair /\ [][Next]_vars /\ Fairness

\* Queries issued one after the other by a single caller
NextSeq == Configure \/ ThreadStep(1)
SpecSeq == Init /\ [][NextSeq]_vars

\* ---- construction alone, from every geometry specification, malformed
\* mesh sources included, under both builds
MaxSources == 2         \* mesh sources per obstacle list and per robot

SeqsUpTo(S, n) == UNION {[1..k -> S] : k \in 0..n}
MalformedMesh == <<5, 6, 7, 8>>
BuildScenes ==
    {NullScene, Scene(<<>>), Scene(ObstacleMesh), Scene(FarMesh), Scene(MalformedMesh)}
BuildGeoms ==
    {[obstacles |-> o, obstaclesShift |-> c, robot |-> r, robotShift |-> rs] :
        o \in SeqsUpTo(BuildScenes, MaxSources),
        c \in {<<>>, <<1>>, <<1, 3>>},
        r \in SeqsUpTo({Scene(PartMesh), Scene(MalformedMesh)}, MaxSources),
        rs \in {<<>>, <<2>>}}

InitBuild ==
    /\ phase = "unconfigured"
    /\ ndebug \in BOOLEAN
    /\ geom \in BuildGeoms
    /\ selfCollision \in BOOLEAN
    /\ environment = [pts |-> <<>>, tris |-> <<>>, pose |-> 0]
    /\ robotParts = <<>>
    /\ InitThreads

NextBuild == Configure \/ ConfigureAbort
SpecBuild == InitBuild /\ [][NextBuild]_vars

\* ======================================================== properties
\* ---- helpers of the properties
\* Robot piece k (1-based) placed at pose p
PartAt(k, p) == [robotParts[k] EXCEPT !.pose = p]
\* Some piece placed as state s says meets the environment
EnvHit(s) == \E k \in 1..NumParts : collide(PartAt(k, s[k]), environment) # 0
\* Some pair of distinct pieces placed at poses ps meets
SelfHit(ps) ==
    \E a \in 1..NumParts, b \in 1..NumParts :
        a < b /\ collide(PartAt(a, ps[a]), PartAt(b, ps[b])) # 0
\* The poses the pieces have on a freshly constructed engine
FreshPoses == [k \in 1..NumParts |-> 0]
\* isValid(s) as the only query ever run on a freshly constructed engine
IsolatedIsValid(s) ==
    IF NumTris(environment) > 0
    THEN ~EnvHit(s) /\ (selfCollision => ~SelfHit(s))
    ELSE selfCollision => ~SelfHit(FreshPoses)

\* The sources of a list of scenes that are present
Present(scenes) == {k \in 1..Len(scenes) : ~scenes[k].null}
Malformed(scenes) == \E k \in Present(scenes) : Len(scenes[k].pts) % 3 # 0
HasMalformedSource(g) == Malformed(g.obstacles) \/ Malformed(g.robot)
\* Every vertex index of every triangle of model m refers to a point of m
IndicesInRange(m) ==
    \A a \in 1..Len(m.tris) : \A c \in 1..3 : m.tris[a][c] < Len(m.pts)

\* C1: discrete validity queries issued concurrently by the threads each
\* return the result the same query gives when run alone, whatever the
\* interleaving.
C1_ConcurrentDiscreteAsIsolated ==
    \A t \in Threads : pc[t] = "d_done" => valid[t] = IsolatedIsValid(st1[t])

\* Two threads have both completed discrete queries on different states of a
\* two-piece robot in a non-empty environment, with different results.
C1_Witness ==
    /\ pc[1] = "d_done" /\ pc[2] = "d_done"
    /\ NumParts = 2 /\ NumTris(environment) > 0
    /\ st1[1] # st1[2] /\ valid[1] /\ ~valid[2]

\* C2: a thread in a transform or test phase of discrete isValid or
\* clearance holds the mutex (so at most one thread is in such a phase), and
\* when it is about to test a piece against the environment every piece's
\* scratch pose is the pose its own state implies.
InLockedPhase(t) ==
    pc[t] \in {"d_transform", "d_env", "d_selfif", "d_self", "d_ret", "k_transform", "k_dist"}
AboutToTestEnv(t) ==
    \/ pc[t] = "d_env" /\ LoopGuard(idxI[t], valid[t])
    \/ pc[t] = "k_dist" /\ idxI[t] < NumParts
C2_LockCoversTransformAndTest ==
    /\ \A t \in Threads : InLockedPhase(t) => mutex = t
    /\ \A t \in Threads : \A u \in Threads :
          InLockedPhase(t) /\ InLockedPhase(u) => t = u
    /\ \A t \in Threads :
          AboutToTestEnv(t) =>
              \A k \in 1..NumParts : robotParts[k].pose = st1[t][k]

\* A thread is about to test the second piece against the environment while
\* the other thread waits for the mutex with a different state.
C2_Witness ==
    /\ pc[1] = "d_env" /\ idxI[1] = 1 /\ valid[1]
    /\ pc[2] = "k_lock" /\ st1[1] # st1[2] /\ NumParts = 2

\* C3: a continuous query that returns true leaves collisionTime at 1.0.
C3_ValidMotionTimeIsOne ==
    \A t \in Threads : pc[t] = "c_done" /\ valid[t] => collisionTime[t] = TimeDen

\* A valid motion of a two-piece robot, with self-collision checked in a
\* non-empty environment: three tests wrote collisionTime.
C3_Witness ==
    /\ pc[1] = "c_done" /\ valid[1] /\ NumParts = 2
    /\ NumTris(environment) > 0 /\ selfCollision /\ st1[1] # st2[1]

\* C4: a continuous query that returns false leaves 0 <= collisionTime < 1.
C4_InvalidMotionTimeInRange ==
    \A t \in Threads :
        pc[t] = "c_done" /\ ~valid[t] => 0 <= collisionTime[t] /\ collisionTime[t] < TimeDen

\* An invalid motion whose collision time lies strictly between 0 and 1.
C4_Witness ==
    /\ pc[1] = "c_done" /\ ~valid[1]
    /\ 0 < collisionTime[1] /\ collisionTime[1] < TimeDen

\* C5 as stated: clearance returns +infinity exactly when the environment
\* has zero triangles.
C5_InfinityIffEmptyEnvironment ==
    \A t \in Threads :
        pc[t] = "k_done" => (dist[t] = Infinity <=> NumTris(environment) = 0)

\* C5 amended: clearance returns +infinity exactly when the environment has
\* zero triangles or the robot has no piece.
C5_InfinityIffNothingToMeasure ==
    \A t \in Threads :
        pc[t] = "k_done" =>
            (dist[t] = Infinity <=> (NumTris(environment) = 0 \/ NumParts = 0))

\* clearance has returned a finite distance for a two-piece robot.
C5_Witness ==
    /\ pc[1] = "k_done" /\ NumParts = 2 /\ NumTris(environment) > 0
    /\ dist[1] < Infinity /\ dist[1] > 0

\* C6: with an empty environment and self-collision disabled, discrete
\* isValid returns true.
C6_EmptyEnvironmentNoSelfIsValid ==
    \A t \in Threads :
        pc[t] = "d_done" /\ NumTris(environment) = 0 /\ ~selfCollision => valid[t]

\* Such a query has returned for two coinciding pieces.
C6_Witness ==
    /\ pc[1] = "d_done" /\ NumTris(environment) = 0 /\ ~selfCollision
    /\ NumParts = 2 /\ SelfHit(st1[1]) /\ valid[1]

\* C7: with at most one piece, discrete and continuous isValid return what
\* they return with self-collision disabled: the outcome of the tests
\* against the environment alone.
EnvOnlyMotion(s1, s2) ==
    IF NumTris(environment) > 0 /\ NumParts = 1
    THEN conservativeAdvancement(robotParts[1], <<s1[1], s2[1]>>, environment, StillMotion)
    ELSE [n |-> 0, toc |-> TimeDen]
C7_SelfCollisionIrrelevantForOnePiece ==
    \A t \in Threads :
        NumParts <= 1 =>
            /\ pc[t] = "d_done" =>
                   valid[t] = (NumTris(environment) > 0 => ~EnvHit(st1[t]))
            /\ pc[t] = "c_done" =>
                   /\ valid[t] = (EnvOnlyMotion(st1[t], st2[t]).n = 0)
                   /\ collisionTime[t] = EnvOnlyMotion(st1[t], st2[t]).toc

\* The application's engine: SE2RigidBodyPlanning has one robot and no
\* self-collision checking.
getRobotCount == 1
isSelfCollisionEnabled == FALSE

\* A continuous query has returned true on a one-piece robot with
\* self-collision enabled in a non-empty environment.
C7_Witness ==
    /\ pc[1] = "c_done" /\ NumParts = getRobotCount /\ selfCollision # isSelfCollisionEnabled
    /\ NumTris(environment) > 0 /\ valid[1]

\* C8: construction from a geometry with a mesh source whose point count is
\* not a multiple of 3 aborts: no engine is left configured, and no model
\* holds a triangle with a vertex index outside its points.
C8_MalformedMeshFailsFast ==
    HasMalformedSource(geom) /\ phase # "unconfigured" =>
        /\ phase = "aborted"
        /\ IndicesInRange(environment)
        /\ \A k \in 1..Len(robotParts) : IndicesInRange(robotParts[k])

\* C9: for well-formed sources, every triangle of every obstacle source is
\* in the environment model: some triangle of the model has, as its three
\* vertices, that triangle's own three points shifted by the source's center.
CenterOf(g, k) == IF Len(g.obstaclesShift) >= k THEN g.obstaclesShift[k] ELSE 0
C9_EnvironmentHoldsEverySource ==
    phase = "configured" /\ ~HasMalformedSource(geom) =>
        \A k \in Present(geom.obstacles) :
            \A m \in 0..((Len(geom.obstacles[k].pts) \div 3) - 1) :
                \E a \in 1..Len(environment.tris) :
                    \A c \in 1..3 :
                        /\ environment.tris[a][c] < Len(environment.pts)
                        /\ Vertex(environment, environment.tris[a][c])
                              = geom.obstacles[k].pts[3 * m + c] - CenterOf(geom, k)

\* C10: no step of a continuous query changes a scratch pose or the mutex,
\* and the motions it tests are the poses of its own s1 and s2.
ContStep(t) ==
    \/ CallIsValidMotion(t) \/ CEnv(t) \/ CSelfIf(t)
    \/ CSelfOuter(t) \/ CSelfInner(t) \/ CReturn(t)
OwnMotion(t, i) == <<st1[t][i + 1], st2[t][i + 1]>>
C10_ContinuousTouchesNoSharedState ==
    [][\A t \in Threads :
          ContStep(t) =>
              /\ robotParts' = robotParts
              /\ mutex' = mutex
              /\ (pc[t] = "c_env" /\ idxI'[t] = idxI[t] + 1)
                    => motionI'[t] = OwnMotion(t, idxI[t])
              /\ (pc[t] = "c_inner" /\ idxJ'[t] = idxJ[t] + 1)
                    => /\ motionI[t] = OwnMotion(t, idxI[t])
                       /\ motionJ'[t] = OwnMotion(t, idxJ[t])]_vars

\* A continuous query is testing its second piece while another thread,
\* holding the mutex, has rewritten the first scratch pose only.
C10_Witness ==
    /\ pc[1] = "c_env" /\ idxI[1] = 1
    /\ pc[2] = "d_transform" /\ idxI[2] = 1 /\ mutex = 2
    /\ NumParts = 2 /\ robotParts[1].pose # robotParts[2].pose

\* ---- the continuous query run alone: its tests in the order of the code
\* The pairs (a, b), a < b, of pieces 1..n in lexicographic order
RECURSIVE PairsFrom(_, _)
PairsFrom(a, n) ==
    IF a >= n THEN <<>>
    ELSE [d \in 1..(n - a) |-> <<a, a + d>>] \o PairsFrom(a + 1, n)
\* What each test of the motion from s1 to s2 reports, were all of them run:
\* the pieces against the environment, then the pairs.
EnvTests(s1, s2) ==
    IF Len(environment.tris) > 0
    THEN [k \in 1..NumParts |->
            conservativeAdvancement(robotParts[k], <<s1[k], s2[k]>>, environment, StillMotion)]
    ELSE <<>>
PairTests(s1, s2) ==
    IF selfCollision
    THEN [x \in 1..Len(PairsFrom(1, NumParts)) |->
            LET pr == PairsFrom(1, NumParts)[x]
            IN  conservativeAdvancement(robotParts[pr[1]], <<s1[pr[1]], s2[pr[1]]>>,
                                        robotParts[pr[2]], <<s1[pr[2]], s2[pr[2]]>>)]
    ELSE <<>>
AllTests(s1, s2) == EnvTests(s1, s2) \o PairTests(s1, s2)
Hits(tests) == {x \in 1..Len(tests) : tests[x].n # 0}
FirstHit(tests) == CHOOSE x \in Hits(tests) : \A y \in Hits(tests) : x <= y
\* The result of isValid(s1, s2, t) run alone: [valid, toc]
IsolatedMotion(s1, s2) ==
    LET tests == AllTests(s1, s2)
    IN  IF Hits(tests) = {} THEN [valid |-> TRUE, toc |-> TimeDen]
        ELSE [valid |-> FALSE, toc |-> tests[FirstHit(tests)].toc]

\* C11: a continuous query that ran while other threads ran discrete and
\* clearance queries (rewriting the scratch poses under the mutex) returns
\* the boolean and the time it returns when run alone.
C11_ContinuousAsIsolatedUnderConcurrency ==
    \A t \in Threads :
        pc[t] = "c_done" =>
            /\ valid[t] = IsolatedMotion(st1[t], st2[t]).valid
            /\ collisionTime[t] = IsolatedMotion(st1[t], st2[t]).toc

\* A continuous query has returned a collision strictly inside the motion
\* while another thread, holding the mutex, has set the scratch poses to a
\* state that is neither end of the motion.
C11_Witness ==
    /\ pc[1] = "c_done" /\ ~valid[1] /\ 0 < collisionTime[1]
    /\ pc[2] \in {"d_env", "k_dist"} /\ mutex = 2 /\ NumParts = 2
    /\ st1[2] # st1[1] /\ st1[2] # st2[1]
    /\ \A k \in 1..NumParts : robotParts[k].pose = st1[2][k]

\* ---- the models any query finds
Querying(t) == pc[t] # "idle"
\* The triangle data of a model (its pose is scratch state, not data)
MeshData(m) == [pts |-> m.pts, tris |-> m.tris]

\* C12: no query runs on an engine that is not configured; whenever one
\* runs (and from configuration on), the environment model is the one built
\* from the obstacles and there is exactly one model per robot piece, piece
\* k at index k, whose triangle data is the data built at configuration:
\* queries change poses only.
C12_QueriesSeeConfiguredModels ==
    /\ \A t \in Threads : Querying(t) => phase = "configured"
    /\ phase = "configured" =>
        /\ MeshData(environment) = MeshData(EnvModelOf(geom, ndebug))
        /\ Len(robotParts) = Len(geom.robot)
        /\ \A k \in 1..Len(geom.robot) :
               MeshData(robotParts[k]) = MeshData(RobotModelOf(geom, k - 1, ndebug))

\* A clearance query has returned on a robot of two pieces with different
\* data, after moving a scratch pose away from its construction value.
C12_Witness ==
    /\ pc[1] = "k_done" /\ phase = "configured"
    /\ Len(robotParts) = 2
    /\ MeshData(robotParts[1]) # MeshData(robotParts[2])
    /\ \E k \in 1..2 : robotParts[k].pose # 0

\* C13: with a non-empty environment, discrete isValid(state), which stops
\* at the first intersection, returns what the evaluation of every piece
\* and every pair returns: true iff no piece at its pose in the state
\* intersects the environment and, self-collision checking being enabled,
\* no pair of distinct pieces at their poses in the state intersects.
C13_ShortCircuitKeepsResult ==
    \A t \in Threads :
        (pc[t] = "d_done" /\ Len(environment.tris) > 0) =>
            (valid[t] <=> (/\ ~EnvHit(st1[t])
                           /\ (selfCollision => ~SelfHit(st1[t]))))

\* A discrete query returned false after its first piece hit the
\* environment, on a robot of two pieces: the second piece was never tested.
C13_Witness ==
    /\ pc[1] = "d_done" /\ ~valid[1] /\ NumParts = 2
    /\ Len(environment.tris) > 0
    /\ collide(PartAt(1, st1[1][1]), environment) # 0
    /\ collide(PartAt(2, st1[1][2]), environment) = 0

\* Also reached: the environment is clear and only a pair intersects.
C13_WitnessPair ==
    /\ pc[1] = "d_done" /\ ~valid[1] /\ Len(environment.tris) > 0
    /\ ~EnvHit(st1[1]) /\ SelfHit(st1[1])

\* ---- the poses a pair test of the discrete query reads
\* Thread t is about to execute fcl::collide on the pair (idxI, idxJ)
AboutToTestPair(t) ==
    /\ pc[t] = "d_self"
    /\ LoopGuard(idxI[t], valid[t])
    /\ LoopGuard(idxJ[t], valid[t])
\* The pieces overlap when every pose is the identity
OverlapAtIdentity == SelfHit(FreshPoses)

\* C14: a robot of two pieces overlapping at the identity pose is invalid
\* at the identity state when self-collision checking is enabled; and
\* whenever discrete isValid(state) executes a piece-against-piece test,
\* the scratch poses of both pieces are the poses of the queried state,
\* with an empty environment as with a non-empty one.
C14_SelfTestsUseQueriedPoses ==
    \A t \in Threads :
        /\ (/\ pc[t] = "d_done" /\ NumParts = 2 /\ selfCollision
            /\ OverlapAtIdentity /\ st1[t] = FreshPoses) => ~valid[t]
        /\ AboutToTestPair(t) =>
            /\ robotParts[idxI[t] + 1].pose = PoseFromState(st1[t], idxI[t])
            /\ robotParts[idxJ[t] + 1].pose = PoseFromState(st1[t], idxJ[t])

\* What the stale poses do to the result: with an empty environment the
\* discrete query answers for the construction poses, not for the state.
C14_EmptyEnvironmentResultIsForState ==
    \A t \in Threads :
        (pc[t] = "d_done" /\ Len(environment.tris) = 0 /\ selfCollision) =>
            (valid[t] <=> ~SelfHit(st1[t]))

\* ---- the tests a continuous query makes
\* Thread t's step is a conservativeAdvancement test
IsMotionTest(t) ==
    \/ pc[t] = "c_env" /\ idxI'[t] = idxI[t] + 1
    \/ pc[t] = "c_inner" /\ idxJ'[t] = idxJ[t] + 1
InContinuous(t) == pc[t] \in {"c_env", "c_selfif", "c_outer", "c_inner", "c_ret"}
\* The tests up to and including the first colliding one: those the query ran
TestedUpTo(tests) == 1..FirstHit(tests)
MinToc(tests, xs) == CHOOSE m \in {tests[x].toc : x \in xs} :
                        \A x \in xs : m <= tests[x].toc

\* C15: a continuous query that returns false returns the time of impact of
\* the first colliding test in test order (pieces against the environment by
\* increasing index, then pairs i < j in lexicographic order), which is the
\* minimum time over the tests that were run; and no test is run once a
\* collision has been detected, so the time is not overwritten afterwards.
C15_ReturnedTimeIsFirstCollision ==
    /\ [](\A t \in Threads :
            (pc[t] = "c_done" /\ ~valid[t]) =>
                LET tests == AllTests(st1[t], st2[t])
                IN  /\ Hits(tests) # {}
                    /\ collisionTime[t] = tests[FirstHit(tests)].toc
                    /\ collisionTime[t] = MinToc(tests, TestedUpTo(tests)))
    /\ [][\A t \in Threads :
            /\ IsMotionTest(t) => valid[t]
            /\ (InContinuous(t) /\ ~valid[t] /\ pc'[t] # "idle") =>
                   collisionTime'[t] = collisionTime[t]]_vars

\* A continuous query returned false at its first test although a later
\* test in the order, never run, would have reported an earlier time.
C15_Witness ==
    /\ pc[1] = "c_done" /\ ~valid[1]
    /\ LET tests == AllTests(st1[1], st2[1])
       IN  /\ Hits(tests) # {}
           /\ \E y \in Hits(tests) :
                 /\ y > FirstHit(tests)
                 /\ tests[y].toc < tests[FirstHit(tests)].toc
           /\ collisionTime[1] = tests[FirstHit(tests)].toc

\* ---- clearance run alone
\* The distance of piece k, at its pose in state s, to the environment
PartDistance(s, k) == min_distance(environment, PartAt(k, s[k]))
MinPartDistance(s) ==
    CHOOSE m \in {PartDistance(s, k) : k \in 1..NumParts} :
        \A k \in 1..NumParts : m <= PartDistance(s, k)

\* C16: with a non-empty environment and at least one robot piece,
\* clearance(state) returns the minimum over the pieces of the distance
\* between the piece at its pose in the state and the environment; the
\* value is non-negative and is determined by the geometry and the state
\* alone, whether self-collision checking is enabled or not.
C16_ClearanceIsMinimumOverParts ==
    \A t \in Threads :
        (pc[t] = "k_done" /\ Len(environment.tris) > 0 /\ NumParts >= 1) =>
            /\ dist[t] = MinPartDistance(st1[t])
            /\ dist[t] >= 0
            /\ dist[t] < Infinity

\* Clearance returned the distance of the second of two pieces, the first
\* being farther from the environment, with self-collision checking enabled.
C16_Witness ==
    /\ pc[1] = "k_done" /\ Len(environment.tris) > 0 /\ NumParts = 2
    /\ selfCollision
    /\ dist[1] = PartDistance(st1[1], 2)
    /\ PartDistance(st1[1], 2) < PartDistance(st1[1], 1)

\* ---- queries on an empty environment
\* Thread t is inside a loop of piece-against-environment tests
InEnvironmentTest(t) == pc[t] \in {"d_env", "c_env", "k_dist"}

\* C17: with zero environment triangles no query issues a
\* piece-against-environment test (the discrete and the continuous query
\* skip the environment loop, clearance returns at once), and with
\* self-collision checking disabled the continuous query returns true with
\* time 1.0 for every pair of states.
C17_EmptyEnvironmentShortCircuits ==
    Len(environment.tris) = 0 =>
        \A t \in Threads :
            /\ ~InEnvironmentTest(t)
            /\ pc[t] \notin {"d_transform", "k_lock", "k_transform"}
            /\ (pc[t] = "c_done" /\ ~selfCollision) =>
                   (valid[t] /\ collisionTime[t] = TimeDen)
            /\ (pc[t] = "d_done" /\ ~selfCollision) => valid[t]
            /\ pc[t] = "k_done" => dist[t] = Infinity

\* A continuous query between two different states of a two-piece robot
\* has returned on an empty environment with self-collision checking off.
C17_Witness ==
    /\ Len(environment.tris) = 0 /\ phase = "configured"
    /\ pc[1] = "c_done" /\ ~selfCollision /\ NumParts = 2
    /\ st1[1] # st2[1]
    /\ valid[1] /\ collisionTime[1] = TimeDen

\* ---- termination and the mutex
Returned(t) == pc[t] \in {"d_done", "c_done", "k_done"}
\* Where thread t does not hold the mutex: outside a query, waiting for the
\* lock, in a continuous query, and after the lock's scope
OutsideLock(t) == ~InLockedPhase(t)

C18_WitnessContention ==
    /\ pc[1] \in {"d_lock", "k_lock"} /\ mutex = 2 /\ InLockedPhase(2)

====
